---- MODULE Spec2Model ----
(***************************************************************************)
(* MediScope: the risk scorer (ai_predictor.py), the population views      *)
(* (utils.py), the patient generator and snapshot file                     *)
(* (patient_generator.py) and the dashboard's session state                *)
(* (streamlit_app.py), as one state machine with one specification per     *)
(* component.                                                              *)
(*                                                                         *)
(* Conventions.  A Python dict is a TLA+ function from its keys; a key     *)
(* that is absent is absent from DOMAIN.  A value that may be None is a     *)
(* sequence: None is <<>>, an integer n that may be None is <<n>>.         *)
(* A str that the code takes apart (blood pressure "S/D", ISO timestamps,  *)
(* names that are searched) is a sequence of one-character strings or of   *)
(* tokens; other strs are TLA+ strings.  A float with one decimal          *)
(* (temperature) is an integer number of tenths.  A datetime is            *)
(* [day, tod]: a day number and a tick within the day.  random.random()    *)
(* is an integer number of hundredths.                                     *)
(***************************************************************************)
EXTENDS Integers, Sequences, FiniteSets, TLC

VARIABLES
    now,            \* the system clock, datetime.now()
    patient,        \* argument of calculate_risk_score
    pre_level,      \* local risk_level of calculate_risk_score after line 103
    drawn,          \* the random.random() values calculate_risk_score consumed
    assessment,     \* value returned by calculate_risk_score
    patients,       \* the list passed to the views of utils.py
    days,           \* argument `days` of calculate_patient_flow
    filters,        \* argument `filters` of filter_patients
    occupancy_rates,\* value returned by calculate_bed_occupancy
    flow_data,      \* value returned by calculate_patient_flow
    filtered,       \* value returned by filter_patients
    stats,          \* value returned by get_patient_statistics
    session_state,  \* st.session_state of the dashboard
    data_file,      \* the snapshot file data/patients.json
    loaded,         \* outcome of load_patients_from_json in this session's initialisation
    error           \* the exception that ended the last script run, "" if none

scoreVars == <<patient, pre_level, drawn, assessment>>
viewVars == <<patients, days, filters, occupancy_rates, flow_data, filtered, stats>>
dashVars == <<session_state, data_file, loaded, error>>
vars == <<now, scoreVars, viewVars, dashVars>>

\* the empty dict {}
EmptyDict == [k \in {} |-> 0]

None == <<>>

\* an integer stored where None may be stored
Some(n) == <<n>>

\* Ticks in a day: the resolution of the time of day.
TicksPerDay == 2

----------------------------------------------------------------------------
(* datetime, timedelta, isoformat                                          *)

Ticks(dt) == dt.day * TicksPerDay + dt.tod

\* dt - timedelta(days=n)
MinusDays(dt, n) == [day |-> dt.day - n, tod |-> dt.tod]

\* dt + timedelta(days=n)
PlusDays(dt, n) == [day |-> dt.day + n, tod |-> dt.tod]

\* (a - b).days: whole days of the difference, floored
DeltaDays(a, b) ==
    LET d == Ticks(a) - Ticks(b)
    IN  IF d >= 0 THEN d \div TicksPerDay
        ELSE -((-d + TicksPerDay - 1) \div TicksPerDay)

\* datetime.isoformat(): "<date>T<time>"
isoformat(dt) == <<dt.day, "T", dt.tod>>

\* datetime.fromisoformat()
fromisoformat(s) == [day |-> s[1], tod |-> s[3]]

----------------------------------------------------------------------------
(* str helpers                                                             *)

DigitChar == <<"0", "1", "2", "3", "4", "5", "6", "7", "8", "9">>

RECURSIVE Digits(_)
\* str(n) for n >= 0, as a sequence of characters
Digits(n) ==
    IF n < 10 THEN <<DigitChar[n + 1]>>
    ELSE Digits(n \div 10) \o <<DigitChar[(n % 10) + 1]>>

DigitValue(c) == CHOOSE i \in 0..9 : DigitChar[i + 1] = c

RECURSIVE ParseInt(_)
\* int(s) for a sequence of digit characters
ParseInt(s) ==
    IF Len(s) = 1 THEN DigitValue(s[1])
    ELSE ParseInt(SubSeq(s, 1, Len(s) - 1)) * 10 + DigitValue(s[Len(s)])

\* s.split(sep)[0]: the part of s before the first sep (all of s if none)
SplitFirst(s, sep) ==
    IF \E i \in 1..Len(s) : s[i] = sep
    THEN LET k == CHOOSE i \in 1..Len(s) :
                      /\ s[i] = sep
                      /\ \A j \in 1..(i - 1) : s[j] # sep
         IN  SubSeq(s, 1, k - 1)
    ELSE s

\* f"{systolic}/{diastolic}"
FormatBP(systolic, diastolic) == Digits(systolic) \o <<"/">> \o Digits(diastolic)

Max(a, b) == IF a >= b THEN a ELSE b
Min(a, b) == IF a <= b THEN a ELSE b

----------------------------------------------------------------------------
(* ai_predictor.py: calculate_risk_score                                   *)

ScoreCap == 15

age_score(age) ==
    IF age > 75 THEN 3
    ELSE IF age > 60 THEN 2
    ELSE IF age > 40 THEN 1
    ELSE 0

hr_score(heart_rate) ==
    IF heart_rate > 120 \/ heart_rate < 50 THEN 3
    ELSE IF heart_rate > 100 \/ heart_rate < 60 THEN 2
    ELSE 0

bp_score(blood_pressure) ==
    LET bp_systolic == ParseInt(SplitFirst(blood_pressure, "/"))
    IN  IF bp_systolic > 180 \/ bp_systolic < 90 THEN 3
        ELSE IF bp_systolic > 140 \/ bp_systolic < 100 THEN 2
        ELSE 0

\* temperatures in tenths of a degree
temp_score(temp) ==
    IF temp > 385 \/ temp < 355 THEN 2
    ELSE IF temp > 378 \/ temp < 360 THEN 1
    ELSE 0

spo2_score(spo2) ==
    IF spo2 < 90 THEN 3
    ELSE IF spo2 < 94 THEN 1
    ELSE 0

high_risk_depts == {"Intensive Care Unit (ICU)", "Cardiology", "Neurology"}
medium_risk_depts == {"Emergency", "Oncology", "Surgery"}

dept_score(department) ==
    IF department \in high_risk_depts THEN 2
    ELSE IF department \in medium_risk_depts THEN 1
    ELSE 0

los_score(admission_date, clock) ==
    LET days_in_hospital == DeltaDays(clock, fromisoformat(admission_date))
    IN  IF days_in_hospital > 14 THEN 2
        ELSE IF days_in_hospital > 7 THEN 1
        ELSE 0

\* the dict `factors` built on lines 24-93
factors_of(p, clock) ==
    [age_score            |-> age_score(p.age),
     heart_rate_score     |-> hr_score(p.vitals.heart_rate),
     blood_pressure_score |-> bp_score(p.vitals.blood_pressure),
     temperature_score    |-> temp_score(p.vitals.temperature),
     oxygen_score         |-> spo2_score(p.vitals.oxygen_saturation),
     department_score     |-> dept_score(p.department),
     length_of_stay_score |-> los_score(p.admission_date, clock)]

\* raw_score with one more point for a record that carries an earlier
\* assessment
raw_score_mut(p, clock) ==
    LET f == factors_of(p, clock)
    IN  f.age_score + f.heart_rate_score + f.blood_pressure_score
        + f.temperature_score + f.oxygen_score + f.department_score
        + f.length_of_stay_score
        + (IF "risk_assessment" \in DOMAIN p THEN 1 ELSE 0)

\* the local `score` after line 92
raw_score(p, clock) ==
    LET f == factors_of(p, clock)
    IN  f.age_score + f.heart_rate_score + f.blood_pressure_score
        + f.temperature_score + f.oxygen_score + f.department_score
        + f.length_of_stay_score

\* level_of with the Critical threshold exclusive
level_of_mut(score) ==
    IF score > 10 THEN "Critical"
    ELSE IF score >= 7 THEN "High"
    ELSE IF score >= 4 THEN "Medium"
    ELSE "Low"

\* lines 96-103: the level before the random variation
level_of(score) ==
    IF score >= 10 THEN "Critical"
    ELSE IF score >= 7 THEN "High"
    ELSE IF score >= 4 THEN "Medium"
    ELSE "Low"

adjustments == <<"Critical", "High", "Medium", "Low">>

\* adjustments.index(risk_level), 0-based
index_of(level) == (CHOOSE i \in 1..Len(adjustments) : adjustments[i] = level) - 1

\* perturb with the two directions exchanged
perturb_mut(level, r1, r2) ==
    IF r1 < 10
    THEN LET current_idx == index_of(level)
         IN  IF current_idx < Len(adjustments) - 1 /\ r2 < 50
             THEN adjustments[(current_idx + 1) + 1]
             ELSE IF current_idx > 0
             THEN adjustments[(current_idx - 1) + 1]
             ELSE level
    ELSE level

\* lines 106-112; r1 is the first random.random(), r2 the second (read only
\* when current_idx > 0: `and` short-circuits)
perturb(level, r1, r2) ==
    IF r1 < 10
    THEN LET current_idx == index_of(level)
         IN  IF current_idx > 0 /\ r2 < 50
             THEN adjustments[(current_idx - 1) + 1]
             ELSE IF current_idx < Len(adjustments) - 1
             THEN adjustments[(current_idx + 1) + 1]
             ELSE level
    ELSE level

\* the random.random() calls lines 106-112 make, given the stream <<r1, r2>>
draws_consumed(level, r1, r2) ==
    IF r1 < 10 /\ index_of(level) > 0 THEN <<r1, r2>> ELSE <<r1>>

\* calculate_risk_score without the cap on risk_score
calculate_risk_score_mut(p, clock, r1, r2) ==
    [risk_level   |-> perturb(level_of(raw_score(p, clock)), r1, r2),
     risk_score   |-> raw_score(p, clock),
     factors      |-> factors_of(p, clock),
     last_updated |-> isoformat(clock)]

calculate_risk_score(p, clock, r1, r2) ==
    [risk_level   |-> perturb(level_of(raw_score(p, clock)), r1, r2),
     risk_score   |-> Min(raw_score(p, clock), ScoreCap),
     factors      |-> factors_of(p, clock),
     last_updated |-> isoformat(clock)]

\* update_patient_risk with the top-level risk_level taken from the score
\* and not from the assessment
update_patient_risk_mut(p, clock, r1, r2) ==
    LET risk_assessment == calculate_risk_score(p, clock, r1, r2)
    IN  [k \in DOMAIN p \cup {"risk_assessment", "risk_level", "risk_score"} |->
            CASE k = "risk_assessment" -> risk_assessment
              [] k = "risk_level" -> level_of(risk_assessment.risk_score)
              [] k = "risk_score" -> Some(risk_assessment.risk_score)
              [] OTHER -> p[k]]

\* update_patient_risk: the record with the three derived keys written
update_patient_risk(p, clock, r1, r2) ==
    LET risk_assessment == calculate_risk_score(p, clock, r1, r2)
    IN  [k \in DOMAIN p \cup {"risk_assessment", "risk_level", "risk_score"} |->
            CASE k = "risk_assessment" -> risk_assessment
              [] k = "risk_level" -> risk_assessment.risk_level
              [] k = "risk_score" -> Some(risk_assessment.risk_score)
              [] OTHER -> p[k]]

\* batch_update_risk; rs[i] is the pair of random.random() values offered to
\* the i-th call
batch_update_risk(ps, clock, rs) ==
    [i \in 1..Len(ps) |-> update_patient_risk(ps[i], clock, rs[i][1], rs[i][2])]

----------------------------------------------------------------------------
(* patient_generator.py                                                    *)

departments ==
    <<"Cardiology", "Neurology", "Oncology", "Pediatrics", "Emergency",
      "Intensive Care Unit (ICU)", "Maternity", "Orthopedics", "Surgery", "Radiology">>

\* clamp: max(lo, min(x, hi))
Clamp(lo, x, hi) == Max(lo, Min(x, hi))

\* generate_vitals; c holds the values the random calls return.  The base
\* values are drawn from the range of the age class of lines 27-44.
generate_vitals(age, c, clock) ==
    LET heart_rate == c.heart_rate + c.heart_rate_var
        bp_systolic == c.bp_systolic + c.bp_systolic_var
        bp_diastolic == c.bp_diastolic + c.bp_diastolic_var
        temp == c.temp + c.temp_var
    \* temperatures are tenths, so round(..., 1) changes nothing
    IN  [heart_rate        |-> Clamp(40, heart_rate, 200),
         blood_pressure    |-> FormatBP(Clamp(60, bp_systolic, 200),
                                        Clamp(40, bp_diastolic, 120)),
         temperature       |-> Clamp(350, temp, 390),
         respiratory_rate  |-> Clamp(8, c.resp_rate, 40),
         oxygen_saturation |-> c.oxygen_saturation,
         timestamp         |-> isoformat(clock)]

\* generate_patient with a discharge date computed for every record
generate_patient_mut(c, clock) ==
    LET admission_date == MinusDays(clock, c.days_ago)
        admitted == c.admit_draw < 70
        discharge_date == isoformat(PlusDays(admission_date, c.discharge_days))
    IN  [patient_id            |-> c.uuid,
         medical_record_number |-> <<"M", "R", "N">> \o Digits(c.mrn_number),
         first_name            |-> c.first_name,
         last_name             |-> c.last_name,
         age                   |-> c.age,
         gender                |-> c.gender,
         department            |-> c.department,
         room                  |-> <<c.room_letter>> \o Digits(c.room_number),
         admission_date        |-> isoformat(admission_date),
         discharge_date        |-> discharge_date,
         status                |-> IF admitted THEN "Admitted" ELSE "Discharged",
         diagnosis             |-> c.diagnosis,
         vitals                |-> generate_vitals(c.age, c, clock),
         risk_score            |-> None]

\* generate_patient; c holds the values the random and faker calls return
generate_patient(c, clock) ==
    LET admission_date == MinusDays(clock, c.days_ago)
        admitted == c.admit_draw < 70
        discharge_date == IF admitted THEN None
                          ELSE isoformat(PlusDays(admission_date, c.discharge_days))
    IN  [patient_id            |-> c.uuid,
         medical_record_number |-> <<"M", "R", "N">> \o Digits(c.mrn_number),
         first_name            |-> c.first_name,
         last_name             |-> c.last_name,
         age                   |-> c.age,
         gender                |-> c.gender,
         department            |-> c.department,
         room                  |-> <<c.room_letter>> \o Digits(c.room_number),
         admission_date        |-> isoformat(admission_date),
         discharge_date        |-> discharge_date,
         status                |-> IF admitted THEN "Admitted" ELSE "Discharged",
         diagnosis             |-> c.diagnosis,
         vitals                |-> generate_vitals(c.age, c, clock),
         risk_score            |-> None]

\* generate_patients(count); cs[i] holds the random values of the i-th call
generate_patients(count, cs, clock) ==
    [i \in 1..count |-> generate_patient(cs[i], clock)]

----------------------------------------------------------------------------
(* utils.py                                                                *)

total_beds ==
    "Cardiology" :> 50 @@ "Neurology" :> 40 @@ "Oncology" :> 60 @@
    "Pediatrics" :> 45 @@ "Emergency" :> 30 @@
    "Intensive Care Unit (ICU)" :> 25 @@ "Maternity" :> 35 @@
    "Orthopedics" :> 40 @@ "Surgery" :> 30 @@ "Radiology" :> 10

\* len([p for p in patients if p['department'] == dept and p['status'] == 'Admitted'])
occupied_in(ps, dept) ==
    Cardinality({i \in 1..Len(ps) :
                    ps[i].department = dept /\ ps[i].status = "Admitted"})

\* bed_entry without the clamp of available at 0
bed_entry_mut(occupied, beds) ==
    [occupied       |-> occupied,
     available      |-> beds - occupied,
     total          |-> beds,
     occupancy_rate |-> IF beds > 0 THEN <<occupied * 100, beds>> ELSE <<0, 1>>]

\* lines 36-41: the entry of one department.  occupancy_rate, a float, is the
\* exact fraction <<numerator, denominator>>.
bed_entry(occupied, beds) ==
    [occupied       |-> occupied,
     available      |-> Max(0, beds - occupied),
     total          |-> beds,
     occupancy_rate |-> IF beds > 0 THEN <<occupied * 100, beds>> ELSE <<0, 1>>]

\* calculate_bed_occupancy; `department` only selects dept_patients, which
\* the function never reads
calculate_bed_occupancy(ps, department) ==
    [dept \in DOMAIN total_beds |-> bed_entry(occupied_in(ps, dept), total_beds[dept])]

\* date.strftime('%Y-%m-%d')
strftime(dt) == Digits(dt.day)

\* lines 51-59: days + 1 empty buckets
empty_flow(start_date, n) ==
    [i \in 1..(n + 1) |->
        [date |-> strftime(PlusDays(start_date, i - 1)), admissions |-> 0, discharges |-> 0]]

\* in_window without the first day of the window
in_window_mut(delta, n) == 0 < delta /\ delta <= n

\* lines 68 and 74: 0 <= delta <= days
in_window(delta, n) == 0 <= delta /\ delta <= n

\* lines 63 and 67: (admit_date - start_date.date()).days
admit_delta(p, start_date) == fromisoformat(p.admission_date).day - start_date.day

\* lines 64 and 73, for a patient whose discharge_date is not None
discharge_delta(p, start_date) == fromisoformat(p.discharge_date).day - start_date.day

\* lines 62-75: every patient adds 1 to flow_data[delta]['admissions'] when
\* its admission delta is in the window, and to flow_data[delta]['discharges']
\* when it has a discharge date whose delta is in the window.  The loop is
\* written as the count, per bucket, of the patients that increment it.
count_patients(flow, ps, start_date, n) ==
    [i \in 1..Len(flow) |->
        [date       |-> flow[i].date,
         admissions |-> flow[i].admissions + Cardinality(
             {k \in 1..Len(ps) :
                 /\ in_window(admit_delta(ps[k], start_date), n)
                 /\ admit_delta(ps[k], start_date) = i - 1}),
         discharges |-> flow[i].discharges + Cardinality(
             {k \in 1..Len(ps) :
                 /\ Len(ps[k].discharge_date) > 0
                 /\ in_window(discharge_delta(ps[k], start_date), n)
                 /\ discharge_delta(ps[k], start_date) = i - 1})]]

calculate_patient_flow(ps, n, clock) ==
    LET start_date == MinusDays(clock, n)
    IN  count_patients(empty_flow(start_date, n), ps, start_date, n)

RECURSIVE SumTo(_, _)
\* f[1] + ... + f[n]
SumTo(f, n) == IF n = 0 THEN 0 ELSE SumTo(f, n - 1) + f[n]

\* round(num / den, nd) in units of 1/scale (scale = 10^nd), nearest with
\* ties to even
round_ratio(num, den, scale) ==
    LET q == (num * scale) \div den
        r == (num * scale) % den
    IN  IF 2 * r < den THEN q
        ELSE IF 2 * r > den THEN q + 1
        ELSE IF q % 2 = 0 THEN q ELSE q + 1

\* p.get('risk_level', 'Unknown')
risk_level_or_unknown(p) ==
    IF "risk_level" \in DOMAIN p THEN p.risk_level ELSE "Unknown"

\* line 106: the indices of the patients that have the key risk_score
with_risk_score(ps) == {i \in 1..Len(ps) : "risk_score" \in DOMAIN ps[i]}

\* what a call that raises returns to its caller
Raised(exception) == [raised |-> exception]

DidRaise(result) == "raised" \in DOMAIN result

\* lines 106-107 and round(avg_risk, 2), in hundredths, for a list whose
\* risk scores are all integers
average_risk(ps) ==
    LET idx == with_risk_score(ps)
        total == SumTo([i \in 1..Len(ps) |-> IF i \in idx THEN ps[i].risk_score[1] ELSE 0],
                       Len(ps))
    IN  IF idx # {} THEN round_ratio(total, Cardinality(idx), 100) ELSE 0

\* get_patient_statistics without the check for an empty list:
\* sum(ages) / len(ages) on line 95 divides by zero
get_patient_statistics_mut(ps) ==
    IF Len(ps) = 0 THEN Raised("ZeroDivisionError")
    ELSE
      LET total_patients == Len(ps)
          admitted == Cardinality({i \in 1..Len(ps) : ps[i].status = "Admitted"})
          discharged == total_patients - admitted
          ages == [i \in 1..Len(ps) |-> ps[i].age]
          risk_levels ==
              [l \in {risk_level_or_unknown(ps[i]) : i \in 1..Len(ps)} |->
                  Cardinality({i \in 1..Len(ps) : risk_level_or_unknown(ps[i]) = l})]
          dept_dist ==
              [d \in {ps[i].department : i \in 1..Len(ps)} |->
                  Cardinality({i \in 1..Len(ps) : ps[i].department = d})]
      IN  IF \E i \in with_risk_score(ps) : ps[i].risk_score = None
          THEN Raised("TypeError")
          ELSE [total_patients          |-> total_patients,
                admitted                |-> admitted,
                discharged              |-> discharged,
                average_age             |-> round_ratio(SumTo(ages, Len(ps)), Len(ps), 10),
                risk_distribution       |-> risk_levels,
                department_distribution |-> dept_dist,
                average_risk_score      |-> average_risk(ps)]

\* get_patient_statistics; average_age in tenths, average_risk_score in
\* hundredths.  sum(risk_scores) on line 107 raises TypeError when the list
\* holds None.
get_patient_statistics(ps) ==
    IF Len(ps) = 0 THEN EmptyDict
    ELSE
      LET total_patients == Len(ps)
          admitted == Cardinality({i \in 1..Len(ps) : ps[i].status = "Admitted"})
          discharged == total_patients - admitted
          ages == [i \in 1..Len(ps) |-> ps[i].age]
          risk_levels ==
              [l \in {risk_level_or_unknown(ps[i]) : i \in 1..Len(ps)} |->
                  Cardinality({i \in 1..Len(ps) : risk_level_or_unknown(ps[i]) = l})]
          dept_dist ==
              [d \in {ps[i].department : i \in 1..Len(ps)} |->
                  Cardinality({i \in 1..Len(ps) : ps[i].department = d})]
      IN  IF \E i \in with_risk_score(ps) : ps[i].risk_score = None
          THEN Raised("TypeError")
          ELSE [total_patients          |-> total_patients,
                admitted                |-> admitted,
                discharged              |-> discharged,
                average_age             |-> round_ratio(SumTo(ages, Len(ps)), Len(ps), 10),
                risk_distribution       |-> risk_levels,
                department_distribution |-> dept_dist,
                average_risk_score      |-> average_risk(ps)]

\* str.lower() on one character
LowerChar(c) ==
    CASE c = "A" -> "a" [] c = "B" -> "b" [] c = "C" -> "c" [] c = "D" -> "d"
      [] c = "L" -> "l" [] c = "M" -> "m" [] c = "N" -> "n" [] c = "R" -> "r"
      [] OTHER -> c

\* str.lower()
lower(s) == [i \in 1..Len(s) |-> LowerChar(s[i])]

\* t in s, for strs
Contains(s, t) ==
    \E i \in 0..(Len(s) - Len(t)) : SubSeq(s, i + 1, i + Len(t)) = t

\* 'key' in filters and filters['key'], for department, risk_level, status
Active(f, key) == key \in DOMAIN f /\ f[key] # ""

\* 'search' in filters and filters['search']
ActiveSearch(f) == "search" \in DOMAIN f /\ Len(f.search) > 0

\* the condition of the comprehension of lines 134-140
search_matches(p, search_term) ==
    \/ Contains(lower(p.first_name), search_term)
    \/ Contains(lower(p.last_name), search_term)
    \/ Contains(lower(p.medical_record_number), search_term)
    \/ Contains(lower(p.room), search_term)

\* by_risk_level applied to `patients` instead of `filtered`
by_risk_level_mut(ps, all, f) ==
    IF Active(f, "risk_level")
    THEN SelectSeq(all, LAMBDA p :
             "risk_level" \in DOMAIN p /\ p.risk_level = f.risk_level)
    ELSE ps

\* lines 123-124
by_department(ps, f) ==
    IF Active(f, "department")
    THEN SelectSeq(ps, LAMBDA p : p.department = f.department)
    ELSE ps

\* lines 126-127; `all` is the argument `patients`, ps the list `filtered`.
\* p.get('risk_level') is None when the key is absent.
by_risk_level(ps, all, f) ==
    IF Active(f, "risk_level")
    THEN SelectSeq(ps, LAMBDA p :
             "risk_level" \in DOMAIN p /\ p.risk_level = f.risk_level)
    ELSE ps

\* lines 129-130
by_status(ps, f) ==
    IF Active(f, "status")
    THEN SelectSeq(ps, LAMBDA p : p.status = f.status)
    ELSE ps

\* lines 132-140
by_search(ps, f) ==
    IF ActiveSearch(f)
    THEN LET search_term == lower(f.search)
         IN  SelectSeq(ps, LAMBDA p : search_matches(p, search_term))
    ELSE ps

filter_patients(ps, f) ==
    by_search(by_status(by_risk_level(by_department(ps, f), ps, f), f), f)

----------------------------------------------------------------------------
(* Inputs of the scorer                                                    *)

Today == [day |-> 100, tod |-> 0]

\* values of random.random(), in hundredths: below 0.1, below 0.5, above
Draws == {5, 30, 70}

ScoreAges == {40, 41, 61, 75, 76}
ScoreHeartRates == {49, 50, 60, 101, 121}
ScoreSystolics == {89, 90, 100, 141, 181}
ScoreTemps == {354, 359, 370, 386}
ScoreSpo2s == {89, 90, 93, 94}
ScoreDepts == {"Intensive Care Unit (ICU)", "Emergency", "Pediatrics"}
ScoreAdmissions ==
    { MinusDays(Today, 7), MinusDays(Today, 8), MinusDays(Today, 15),
      [day |-> Today.day - 15, tod |-> 1] }

\* a fully-populated record, with the keys of generate_patient
Record(age, heart_rate, systolic, temp, spo2, department, admission, discharge, first_name, last_name, mrn, room) ==
    [patient_id            |-> mrn,
     medical_record_number |-> mrn,
     first_name            |-> first_name,
     last_name             |-> last_name,
     age                   |-> age,
     gender                |-> "Female",
     department            |-> department,
     room                  |-> room,
     admission_date        |-> isoformat(admission),
     discharge_date        |-> discharge,
     status                |-> IF discharge = None THEN "Admitted" ELSE "Discharged",
     diagnosis             |-> "Asthma",
     vitals                |-> [heart_rate        |-> heart_rate,
                                blood_pressure    |-> FormatBP(systolic, 80),
                                temperature       |-> temp,
                                respiratory_rate  |-> 16,
                                oxygen_saturation |-> spo2,
                                timestamp         |-> isoformat(Today)],
     risk_score            |-> None]

ScoreInputs ==
    { Record(a, h, s, t, o, d, adm, None,
             <<"A", "n", "n">>, <<"L", "e", "e">>, <<"M", "R", "N", "1">>, <<"A", "1">>) :
        a \in ScoreAges, h \in ScoreHeartRates, s \in ScoreSystolics,
        t \in ScoreTemps, o \in ScoreSpo2s, d \in ScoreDepts,
        adm \in ScoreAdmissions }

\* before the first call: no level, no returned dict
NoLevel == ""
NoAssessment == [risk_level |-> NoLevel]

\* a view that has not been called has returned nothing
NoResult == [called |-> FALSE]

ViewsIdle ==
    /\ patients = <<>>
    /\ days = 0
    /\ filters = EmptyDict
    /\ occupancy_rates = NoResult
    /\ flow_data = <<>>
    /\ filtered = <<>>
    /\ stats = NoResult

\* the snapshot file: absent, not JSON, or a JSON array.  json.dump and
\* json.load are inverse on records of strs, numbers, None, dicts and lists.
MissingFile == [kind |-> "missing"]
InvalidFile == [kind |-> "invalid"]
ArrayFile(ps) == [kind |-> "array", data |-> ps]

NotLoaded == [called |-> FALSE]

DashboardIdle ==
    /\ session_state = EmptyDict
    /\ data_file = MissingFile
    /\ loaded = NotLoaded
    /\ error = ""

ScorerIdle ==
    /\ patient = EmptyDict
    /\ pre_level = NoLevel
    /\ drawn = <<>>
    /\ assessment = NoAssessment

InitScore ==
    /\ ViewsIdle
    /\ DashboardIdle
    /\ now = Today
    /\ patient \in ScoreInputs
    /\ pre_level = NoLevel
    /\ drawn = <<>>
    /\ assessment = NoAssessment

\* one call of calculate_risk_score(patient)
Score ==
    \E r1 \in Draws, r2 \in Draws :
        /\ pre_level' = level_of(raw_score(patient, now))
        /\ drawn' = draws_consumed(pre_level', r1, r2)
        /\ assessment' = calculate_risk_score(patient, now, r1, r2)
        /\ UNCHANGED <<now, patient, viewVars, dashVars>>

NextScore == Score

SpecScore == InitScore /\ [][NextScore]_vars

----------------------------------------------------------------------------
(* Claims about the scorer, under SpecScore                                *)

Scored == "factors" \in DOMAIN assessment

FactorSum(f) ==
    f.age_score + f.heart_rate_score + f.blood_pressure_score
    + f.temperature_score + f.oxygen_score + f.department_score
    + f.length_of_stay_score

TowardCritical(level) ==
    CASE level = "Low" -> "Medium"
      [] level = "Medium" -> "High"
      [] level = "High" -> "Critical"
      [] OTHER -> level

TowardLow(level) ==
    CASE level = "Critical" -> "High"
      [] level = "High" -> "Medium"
      [] level = "Medium" -> "Low"
      [] OTHER -> level

Triggered == Scored /\ drawn[1] < 10

\* C2 as stated: a triggered perturbation on High or Medium moves the level
\* one step toward Low when the conditional draw is below 0.5 and one step
\* toward Critical otherwise.
C2_AsStated ==
    (Triggered /\ pre_level \in {"High", "Medium"}) =>
        /\ Len(drawn) = 2
        /\ drawn[2] < 50 => assessment.risk_level = TowardLow(pre_level)
        /\ drawn[2] >= 50 => assessment.risk_level = TowardCritical(pre_level)

\* C2, amended: a triggered perturbation on High or Medium moves the level
\* exactly one step toward Critical when the conditional draw is below 0.5
\* and exactly one step toward Low otherwise.
C2_Perturbation ==
    (Triggered /\ pre_level \in {"High", "Medium"}) =>
        /\ Len(drawn) = 2
        /\ drawn[2] < 50 => assessment.risk_level = TowardCritical(pre_level)
        /\ drawn[2] >= 50 => assessment.risk_level = TowardLow(pre_level)

C2_Witness ==
    /\ Triggered
    /\ pre_level = "High"
    /\ drawn[2] < 50
    /\ assessment.risk_level = "Critical"

\* C3: whenever a perturbation triggers on a boundary level (Critical or
\* Low), one of the two outcomes of the direction draw leaves the level
\* unchanged.
C3_BoundaryNoOp ==
    (Triggered /\ pre_level \in {"Critical", "Low"}) =>
        \E r2 \in Draws : perturb(pre_level, drawn[1], r2) = pre_level

\* C6: the returned risk_score is min(sum of the seven sub-scores, 15), lies
\* in 0..15, and every sub-score lies between 0 and its table maximum.
C6_ScoreBounds ==
    Scored =>
        LET f == assessment.factors
        IN  /\ assessment.risk_score = Min(FactorSum(f), 15)
            /\ assessment.risk_score \in 0..15
            /\ f.age_score \in 0..3
            /\ f.heart_rate_score \in 0..3
            /\ f.blood_pressure_score \in 0..3
            /\ f.temperature_score \in 0..2
            /\ f.oxygen_score \in 0..3
            /\ f.department_score \in 0..2
            /\ f.length_of_stay_score \in 0..2

C6_Witness ==
    /\ Scored
    /\ FactorSum(assessment.factors) = 18
    /\ assessment.risk_score = 15

Systolic(p) == ParseInt(SplitFirst(p.vitals.blood_pressure, "/"))

\* the record of C7: every factor but temperature in its top bucket
SevereCase(p) ==
    /\ p.age > 75
    /\ p.vitals.heart_rate < 50 \/ p.vitals.heart_rate > 120
    /\ Systolic(p) < 90 \/ Systolic(p) > 180
    /\ p.vitals.oxygen_saturation < 90
    /\ p.department \in {"Intensive Care Unit (ICU)", "Cardiology", "Neurology"}
    /\ DeltaDays(now, fromisoformat(p.admission_date)) > 14

\* C7: the level before perturbation is the threshold bucket of the
\* unclamped factor sum (>= 10 Critical, >= 7 High, >= 4 Medium, else Low);
\* the severe record is Critical before perturbation whatever its
\* temperature; with all seven factors at their maximum the sum is 18 and the
\* returned score 15.
C7_LevelBuckets ==
    Scored =>
        LET sum == FactorSum(assessment.factors)
        IN  /\ sum >= 10 <=> pre_level = "Critical"
            /\ (sum >= 7 /\ sum < 10) <=> pre_level = "High"
            /\ (sum >= 4 /\ sum < 7) <=> pre_level = "Medium"
            /\ sum < 4 <=> pre_level = "Low"
            /\ SevereCase(patient) => pre_level = "Critical"
            /\ (SevereCase(patient) /\ assessment.factors.temperature_score = 2) =>
                   (sum = 18 /\ assessment.risk_score = 15)

C7_Witness ==
    /\ Scored
    /\ SevereCase(patient)
    /\ patient.vitals.temperature > 385
    /\ FactorSum(assessment.factors) = 18
    /\ pre_level = "Critical"
    /\ assessment.risk_score = 15

----------------------------------------------------------------------------
(* Bed occupancy, under SpecBeds: the caller extends the list by one       *)
(* record and calls calculate_bed_occupancy on it                          *)

MaxBedPatients == 11

Name1 == <<"A", "n", "n">>
Name2 == <<"L", "e", "e">>
Mrn1 == <<"M", "R", "N", "1">>
Room1 == <<"A", "1">>

BedInputs ==
    { Record(50, 80, 120, 370, 97, "Radiology", MinusDays(Today, 2), None,
             Name1, Name2, Mrn1, Room1),
      Record(50, 80, 120, 370, 97, "Radiology", MinusDays(Today, 2),
             isoformat(MinusDays(Today, 1)), Name1, Name2, Mrn1, Room1),
      Record(50, 80, 120, 370, 97, "Surgery", MinusDays(Today, 2), None,
             Name1, Name2, Mrn1, Room1) }

\* the list as it is, or with one more record of `inputs`, up to `max` records
Extensions(ps, inputs, max) ==
    {ps} \cup (IF Len(ps) < max THEN {Append(ps, p) : p \in inputs} ELSE {})

InitBeds ==
    /\ now = Today
    /\ ScorerIdle
    /\ DashboardIdle
    /\ ViewsIdle

CallBedOccupancy ==
    \E ps \in Extensions(patients, BedInputs, MaxBedPatients) :
        /\ patients' = ps
        /\ occupancy_rates' = calculate_bed_occupancy(ps, "")
        /\ UNCHANGED <<now, dashVars, scoreVars, days, filters, flow_data, filtered, stats>>

NextBeds == CallBedOccupancy

SpecBeds == InitBeds /\ [][NextBeds]_vars

BedsCalled == "Radiology" \in DOMAIN occupancy_rates

TableDepartments == {departments[i] : i \in 1..Len(departments)}

\* C1 as stated: for every department of the capacity table,
\* occupied + available = total, whatever the population.
C1_AsStated ==
    BedsCalled =>
        /\ DOMAIN occupancy_rates = TableDepartments
        /\ \A d \in TableDepartments :
               occupancy_rates[d].occupied + occupancy_rates[d].available
                   = occupancy_rates[d].total

\* C1, amended: for every department of the capacity table,
\* occupied + available = total as long as the department has no more
\* Admitted patients than beds; with more, available is 0 and
\* occupied + available = occupied, which exceeds total.
C1_Occupancy ==
    BedsCalled =>
        /\ DOMAIN occupancy_rates = TableDepartments
        /\ \A d \in TableDepartments :
               LET e == occupancy_rates[d]
               IN  /\ e.occupied <= e.total => e.occupied + e.available = e.total
                   /\ e.occupied > e.total =>
                          (e.available = 0 /\ e.occupied + e.available > e.total)

C1_Witness ==
    /\ BedsCalled
    /\ occupancy_rates["Radiology"].occupied = 11
    /\ occupancy_rates["Radiology"].total = 10
    /\ occupancy_rates["Radiology"].available = 0
    /\ occupancy_rates["Surgery"].occupied + occupancy_rates["Surgery"].available = 30

----------------------------------------------------------------------------
(* Patient flow, under SpecFlow                                            *)

FlowDays == 7
MaxFlowDays == 2
MaxFlowPatients == 3

FlowDayChoices == (0..MaxFlowDays) \cup {FlowDays}

FlowRecord(admission, discharge) ==
    Record(50, 80, 120, 370, 97, "Surgery", admission, discharge,
           Name1, Name2, Mrn1, Room1)

FlowInputs ==
    { FlowRecord(MinusDays(Today, 8), None),
      FlowRecord(MinusDays(Today, 7), isoformat(MinusDays(Today, 6))),
      FlowRecord(MinusDays(Today, 3), isoformat(MinusDays(Today, 1))),
      FlowRecord(MinusDays(Today, 2), isoformat(PlusDays(Today, 1))),
      FlowRecord([day |-> Today.day - 1, tod |-> 1], None),
      FlowRecord(Today, isoformat(Today)),
      FlowRecord(PlusDays(Today, 1), None) }

InitFlow ==
    /\ now \in {Today, [day |-> Today.day, tod |-> 1]}
    /\ ScorerIdle
    /\ DashboardIdle
    /\ patients = <<>>
    /\ days \in FlowDayChoices
    /\ filters = EmptyDict
    /\ occupancy_rates = NoResult
    /\ flow_data = <<>>
    /\ filtered = <<>>
    /\ stats = NoResult

CallPatientFlow ==
    \E ps \in Extensions(patients, FlowInputs, MaxFlowPatients) :
        /\ patients' = ps
        /\ flow_data' = calculate_patient_flow(ps, days, now)
        /\ UNCHANGED <<now, dashVars, scoreVars, days, filters, occupancy_rates, filtered, stats>>

NextFlow == CallPatientFlow

SpecFlow == InitFlow /\ [][NextFlow]_vars

FlowCalled == Len(flow_data) > 0

\* the first day of the window, and the day of an ISO timestamp
WindowStart == now.day - days
DayOf(iso) == iso[1]

InWindow(iso) == DayOf(iso) >= WindowStart /\ DayOf(iso) <= WindowStart + days

AdmittedInWindow == {i \in 1..Len(patients) : InWindow(patients[i].admission_date)}

DischargedInWindow ==
    {i \in 1..Len(patients) :
        Len(patients[i].discharge_date) > 0 /\ InWindow(patients[i].discharge_date)}

\* C8: for a window of N >= 0 days the result has N + 1 buckets, its
\* admissions add up to the number of patients admitted on a day in
\* [window_start, window_start + N], its discharges to the number of patients
\* with a discharge date in that range; patients outside the window add
\* nothing.
C8_FlowTotals ==
    FlowCalled =>
        /\ Len(flow_data) = days + 1
        /\ SumTo([i \in 1..Len(flow_data) |-> flow_data[i].admissions], Len(flow_data))
               = Cardinality(AdmittedInWindow)
        /\ SumTo([i \in 1..Len(flow_data) |-> flow_data[i].discharges], Len(flow_data))
               = Cardinality(DischargedInWindow)

C8_Witness ==
    /\ FlowCalled
    /\ days = 7
    /\ Len(patients) = 3
    /\ Cardinality(AdmittedInWindow) = 2
    /\ Cardinality(DischargedInWindow) = 1
    /\ flow_data[1].admissions = 1
    /\ \E i \in 1..Len(patients) : ~InWindow(patients[i].admission_date)

----------------------------------------------------------------------------
(* filter_patients, under SpecFilter                                       *)

MaxFilterPatients == 3

Name3 == <<"B", "a", "n">>
Name4 == <<"D", "a", "l">>
Mrn2 == <<"M", "R", "N", "2">>
Room2 == <<"B", "2">>

\* factor sum 8 (High) in a high-risk department, 2 (Low) for the second
HighRecord(department, discharge, first_name, last_name, mrn, room) ==
    update_patient_risk(
        Record(80, 121, 120, 370, 97, department, MinusDays(Today, 2), discharge,
               first_name, last_name, mrn, room),
        Today, 70, 70)

LowRecord(department, discharge, first_name, last_name, mrn, room) ==
    update_patient_risk(
        Record(30, 80, 120, 370, 97, department, MinusDays(Today, 2), discharge,
               first_name, last_name, mrn, room),
        Today, 70, 70)

FilterInputs ==
    { HighRecord("Cardiology", None, Name1, Name2, Mrn1, Room1),
      LowRecord("Cardiology", isoformat(Today), Name3, Name2, Mrn2, Room1),
      HighRecord("Neurology", None, Name3, Name4, Mrn1, Room2),
      Record(80, 121, 120, 370, 97, "Cardiology", MinusDays(Today, 2), None,
             Name1, Name4, Mrn2, Room2),
      LowRecord("Neurology", isoformat(Today), Name1, Name4, Mrn2, Room1) }

\* a criterion that the mapping does not hold
Absent == "<absent>"
AbsentSearch == <<"<absent>">>

MakeFilters(department, risk_level, status, search) ==
    [k \in {kk \in {"department", "risk_level", "status", "search"} :
               \/ kk = "department" /\ department # Absent
               \/ kk = "risk_level" /\ risk_level # Absent
               \/ kk = "status" /\ status # Absent
               \/ kk = "search" /\ search # AbsentSearch} |->
        CASE k = "department" -> department
          [] k = "risk_level" -> risk_level
          [] k = "status" -> status
          [] OTHER -> search]

FilterChoices ==
    { MakeFilters(d, r, st, se) :
        d \in {Absent, "", "Cardiology"},
        r \in {Absent, "", "High"},
        st \in {Absent, "Admitted"},
        se \in {AbsentSearch, <<>>, <<"a", "n">>, <<"A", "N">>, <<"1">>,
                <<"m", "r", "n", "2">>} }

InitFilter ==
    /\ now = Today
    /\ ScorerIdle
    /\ DashboardIdle
    /\ patients = <<>>
    /\ days = 0
    /\ filters \in FilterChoices
    /\ occupancy_rates = NoResult
    /\ flow_data = <<>>
    /\ filtered = <<>>
    /\ stats = NoResult

CallFilterPatients ==
    \E ps \in Extensions(patients, FilterInputs, MaxFilterPatients) :
        /\ patients' = ps
        /\ filtered' = filter_patients(ps, filters)
        /\ UNCHANGED <<now, dashVars, scoreVars, days, filters, occupancy_rates, flow_data, stats>>

NextFilter == CallFilterPatients

SpecFilter == InitFilter /\ [][NextFilter]_vars

\* the criterion `key` is given and not empty
Given(f, key) ==
    /\ key \in DOMAIN f
    /\ IF key = "search" THEN f[key] # <<>> ELSE f[key] # ""

\* term occurs in field, letter case ignored
OccursIn(term, field) ==
    \E off \in 0..(Len(field) - Len(term)) :
        \A j \in 1..Len(term) : LowerChar(field[off + j]) = LowerChar(term[j])

\* the record satisfies every criterion that is given
Satisfies(p, f) ==
    /\ Given(f, "department") => p.department = f.department
    /\ Given(f, "risk_level") => ("risk_level" \in DOMAIN p /\ p.risk_level = f.risk_level)
    /\ Given(f, "status") => p.status = f.status
    /\ Given(f, "search") =>
           \/ OccursIn(f.search, p.first_name)
           \/ OccursIn(f.search, p.last_name)
           \/ OccursIn(f.search, p.medical_record_number)
           \/ OccursIn(f.search, p.room)

Only(f, keys) == [k \in DOMAIN f \cap keys |-> f[k]]

\* C9: the result is the subsequence of the input, in order, of the records
\* that satisfy every given criterion; filtering by department and then by
\* risk level, or by risk level and then by department, equals filtering by
\* both at once.
C9_FilterConjunction ==
    /\ filtered = SelectSeq(patients, LAMBDA p : Satisfies(p, filters))
    /\ LET dept == Only(filters, {"department"})
           risk == Only(filters, {"risk_level"})
           both == Only(filters, {"department", "risk_level"})
       IN  /\ filter_patients(filter_patients(patients, dept), risk)
                = filter_patients(patients, both)
           /\ filter_patients(filter_patients(patients, risk), dept)
                = filter_patients(patients, both)

C9_Witness ==
    /\ Len(patients) = 3
    /\ Given(filters, "department")
    /\ Given(filters, "risk_level")
    /\ Given(filters, "search")
    /\ Len(filtered) = 1
    /\ \E i \in 1..3 : patients[i].department # filters.department
    /\ \E i \in 1..3 :
           /\ patients[i].department = filters.department
           /\ "risk_level" \notin DOMAIN patients[i]

----------------------------------------------------------------------------
(* Values the generator's random and faker calls return                    *)

\* an adult kept in Cardiology, a discharged child, an adult admitted today
\* in Radiology, an elderly patient discharged from the ICU
GenChoice ==
    << [age |-> 80, gender |-> "Female", department |-> "Cardiology",
        days_ago |-> 14, admit_draw |-> 30, discharge_days |-> 1,
        diagnosis |-> "Hypertension",
        heart_rate |-> 100, heart_rate_var |-> 5,
        bp_systolic |-> 140, bp_systolic_var |-> 5,
        bp_diastolic |-> 90, bp_diastolic_var |-> 3,
        temp |-> 372, temp_var |-> 2, resp_rate |-> 20, oxygen_saturation |-> 90,
        uuid |-> <<"u", "1">>, mrn_number |-> 10000001,
        first_name |-> Name1, last_name |-> Name2,
        room_letter |-> "A", room_number |-> 100],
       [age |-> 8, gender |-> "Male", department |-> "Pediatrics",
        days_ago |-> 3, admit_draw |-> 85, discharge_days |-> 1,
        diagnosis |-> "Asthma",
        heart_rate |-> 70, heart_rate_var |-> -5,
        bp_systolic |-> 80, bp_systolic_var |-> -5,
        bp_diastolic |-> 50, bp_diastolic_var |-> -3,
        temp |-> 360, temp_var |-> -2, resp_rate |-> 16, oxygen_saturation |-> 100,
        uuid |-> <<"u", "2">>, mrn_number |-> 10000002,
        first_name |-> Name3, last_name |-> Name4,
        room_letter |-> "B", room_number |-> 599],
       [age |-> 30, gender |-> "Female", department |-> "Radiology",
        days_ago |-> 0, admit_draw |-> 69, discharge_days |-> 30,
        diagnosis |-> "Fracture",
        heart_rate |-> 60, heart_rate_var |-> 0,
        bp_systolic |-> 90, bp_systolic_var |-> 0,
        bp_diastolic |-> 60, bp_diastolic_var |-> 0,
        temp |-> 362, temp_var |-> 0, resp_rate |-> 12, oxygen_saturation |-> 95,
        uuid |-> <<"u", "3">>, mrn_number |-> 10000003,
        first_name |-> Name1, last_name |-> Name4,
        room_letter |-> "C", room_number |-> 250],
       [age |-> 100, gender |-> "Male", department |-> "Intensive Care Unit (ICU)",
        days_ago |-> 10, admit_draw |-> 70, discharge_days |-> 30,
        diagnosis |-> "Stroke",
        heart_rate |-> 61, heart_rate_var |-> -5,
        bp_systolic |-> 92, bp_systolic_var |-> -5,
        bp_diastolic |-> 75, bp_diastolic_var |-> 1,
        temp |-> 365, temp_var |-> 1, resp_rate |-> 14, oxygen_saturation |-> 92,
        uuid |-> <<"u", "4">>, mrn_number |-> 10000004,
        first_name |-> Name3, last_name |-> Name2,
        room_letter |-> "D", room_number |-> 101] >>

GenChoiceSet == {GenChoice[i] : i \in 1..Len(GenChoice)}

\* what generate_patient returns: records not yet scored
Generated == {generate_patient(c, Today) : c \in GenChoiceSet}

----------------------------------------------------------------------------
(* get_patient_statistics, under SpecStats                                 *)

MaxStatsPatients == 3

\* a record without the key risk_score
WithoutRiskScore(p) == [k \in DOMAIN p \ {"risk_score"} |-> p[k]]

StatsInputs ==
    Generated
    \cup {update_patient_risk(generate_patient(GenChoice[i], Today), Today, 70, 70) :
             i \in 1..2}
    \cup {WithoutRiskScore(generate_patient(GenChoice[1], Today))}

InitStats ==
    /\ now = Today
    /\ ScorerIdle
    /\ DashboardIdle
    /\ ViewsIdle

CallPatientStatistics ==
    \E ps \in Extensions(patients, StatsInputs, MaxStatsPatients) :
        /\ patients' = ps
        /\ stats' = get_patient_statistics(ps)
        /\ UNCHANGED <<now, dashVars, scoreVars, days, filters, occupancy_rates, flow_data, filtered>>

NextStats == CallPatientStatistics

SpecStats == InitStats /\ [][NextStats]_vars

StatsCalled == "called" \notin DOMAIN stats

\* C5: on a non-empty list of records as the generator produced them, not
\* yet scored, get_patient_statistics does not raise, counts every record
\* under "Unknown" and reports an average risk score of 0.
C5_UnscoredStatistics ==
    (/\ StatsCalled
     /\ Len(patients) > 0
     /\ \A i \in 1..Len(patients) : patients[i] \in Generated) =>
        /\ ~DidRaise(stats)
        /\ DOMAIN stats.risk_distribution = {"Unknown"}
        /\ stats.risk_distribution["Unknown"] = Len(patients)
        /\ stats.average_risk_score = 0

----------------------------------------------------------------------------
(* streamlit_app.py: one run of the script, under Spec                     *)

InitialCount == 50
RefreshCount == 5
MaxRefreshes == 1

\* A variant fixes the random values of one batch: which records the
\* generator makes and which perturbations the scorer draws.
Variants == {0, 1}

\* the random values of a batch of `count` generate_patient calls
BatchChoices(variant, count) ==
    [i \in 1..count |->
        [GenChoice[((variant + i) % Len(GenChoice)) + 1]
            EXCEPT !.mrn_number = 10000000 + 100 * variant + i]]

\* the random.random() values offered to a batch of `count` scorer calls:
\* no perturbation in variant 0, otherwise a perturbation of every record in
\* alternating directions
BatchDraws(variant, count) ==
    [i \in 1..count |->
        IF variant = 0 THEN <<70, 70>>
        ELSE IF (i + variant) % 2 = 0 THEN <<5, 30>> ELSE <<5, 70>>]

\* load_patients_from_json: [] for a missing file, JSONDecodeError for a
\* file that is not JSON
load_patients_from_json(file) ==
    IF file.kind = "missing" THEN [value |-> <<>>]
    ELSE IF file.kind = "invalid" THEN Raised("JSONDecodeError")
    ELSE [value |-> file.data]

\* save_patients_to_json
save_patients_to_json(ps) == ArrayFile(ps)

\* what is kept of a call of load_patients_from_json: the exception, or the
\* number of records
load_outcome(result) ==
    IF DidRaise(result) THEN result ELSE [count |-> Len(result.value)]

\* lines 78-82: generate, score, store, save
regenerate(session, variant, clock) ==
    LET ps == batch_update_risk(
                  generate_patients(InitialCount, BatchChoices(variant, InitialCount), clock),
                  clock, BatchDraws(variant, InitialCount))
    IN  [session_state |-> ("patients" :> ps) @@ session,
         data_file     |-> save_patients_to_json(ps),
         error         |-> ""]

\* initialize_session without the check for an empty list
initialize_session_mut(session, file, variant, clock) ==
    LET result == load_patients_from_json(file)
    IN  IF DidRaise(result)
        THEN regenerate(session, variant, clock)
        ELSE [session_state |-> ("patients" :> result.value) @@ session,
              data_file     |-> file,
              error         |-> ""]

\* lines 69-82, when 'patients' is not in st.session_state
initialize_session(session, file, variant, clock) ==
    LET result == load_patients_from_json(file)
    IN  IF DidRaise(result)
        THEN IF result.raised \in {"FileNotFoundError", "JSONDecodeError"}
             THEN regenerate(session, variant, clock)
             ELSE [session_state |-> session, data_file |-> file,
                   error |-> result.raised]
        ELSE IF Len(result.value) = 0
        THEN regenerate(session, variant, clock)
        ELSE [session_state |-> ("patients" :> result.value) @@ session,
              data_file     |-> file,
              error         |-> ""]

\* lines 151-160: the statistics and the first KPI card; the views that
\* follow an exception are not computed
render(ps) ==
    LET st == get_patient_statistics(ps)
    IN  IF DidRaise(st)
        THEN [stats |-> st, occupancy_rates |-> NoResult, flow_data |-> <<>>,
              error |-> st.raised]
        ELSE [stats           |-> st,
              occupancy_rates |-> calculate_bed_occupancy(ps, ""),
              flow_data       |-> calculate_patient_flow(ps, FlowDays, now),
              error           |-> IF "total_patients" \in DOMAIN st THEN "" ELSE "KeyError"]

\* refresh_data with the new records stored in place of the population
refresh_data_mut(ps, variant, clock) ==
    batch_update_risk(
        generate_patients(RefreshCount, BatchChoices(variant, RefreshCount), clock),
        clock, BatchDraws(variant, RefreshCount))

\* lines 133-138
refresh_data(ps, variant, clock) ==
    ps \o batch_update_risk(
              generate_patients(RefreshCount, BatchChoices(variant, RefreshCount), clock),
              clock, BatchDraws(variant, RefreshCount))

\* line 143
generate_new_dataset(variant, clock) ==
    batch_update_risk(
        generate_patients(InitialCount, BatchChoices(variant, InitialCount), clock),
        clock, BatchDraws(variant, InitialCount))

\* the sidebar selections: none, or a department and a risk level
DashFilters ==
    {EmptyDict, MakeFilters("Cardiology", "High", Absent, AbsentSearch)}

\* The dashboard starts with no session and a snapshot file that is missing,
\* not JSON or an empty array; arrays of records are written by the
\* dashboard and by the generator's main program.
Init ==
    /\ now = Today
    /\ ScorerIdle
    /\ ViewsIdle
    /\ session_state = EmptyDict
    /\ data_file \in {MissingFile, InvalidFile, ArrayFile(<<>>)}
    /\ loaded = NotLoaded
    /\ error = ""

\* what the rest of the script, from line 84 on, leaves behind
Rendered(ps, f) ==
    LET r == render(ps)
    IN  /\ filters' = f
        /\ filtered' = filter_patients(ps, f)
        /\ stats' = r.stats
        /\ occupancy_rates' = r.occupancy_rates
        /\ flow_data' = r.flow_data
        /\ error' = r.error
        /\ days' = FlowDays

\* A run of the script with no button pressed: the first run of a session,
\* or a run after a change of the sidebar selections.
RunScript ==
    \E f \in DashFilters, variant \in Variants :
        IF "patients" \in DOMAIN session_state
        THEN /\ Rendered(session_state.patients, f)
             /\ UNCHANGED <<now, scoreVars, patients, session_state, data_file, loaded>>
        ELSE LET i == initialize_session(session_state, data_file, variant, now)
             IN  /\ loaded' = load_outcome(load_patients_from_json(data_file))
                 /\ session_state' = i.session_state
                 /\ data_file' = i.data_file
                 /\ IF i.error = ""
                    THEN Rendered(i.session_state.patients, f)
                    ELSE /\ error' = i.error
                         /\ UNCHANGED <<filters, filtered, stats, occupancy_rates,
                                        flow_data, days>>
                 /\ UNCHANGED <<now, scoreVars, patients>>

\* The run that a press of "Refresh Data" starts, and the rerun it asks for.
RefreshData ==
    \E variant \in Variants :
        /\ "patients" \in DOMAIN session_state
        /\ Len(session_state.patients) + RefreshCount
               <= InitialCount + MaxRefreshes * RefreshCount
        /\ LET ps == refresh_data(session_state.patients, variant, now)
           IN  /\ session_state' = [session_state EXCEPT !["patients"] = ps]
               /\ data_file' = save_patients_to_json(ps)
               /\ Rendered(ps, filters)
        /\ UNCHANGED <<now, scoreVars, patients, loaded>>

\* The run that a press of "Generate New Dataset" starts, and its rerun.
GenerateNewDataset ==
    \E variant \in Variants :
        /\ "patients" \in DOMAIN session_state
        /\ LET ps == generate_new_dataset(variant, now)
           IN  /\ session_state' = [session_state EXCEPT !["patients"] = ps]
               /\ data_file' = save_patients_to_json(ps)
               /\ Rendered(ps, filters)
        /\ UNCHANGED <<now, scoreVars, patients, loaded>>

\* The browser session ends; the next run starts from an empty session state.
EndSession ==
    /\ "patients" \in DOMAIN session_state
    /\ session_state' = EmptyDict
    /\ loaded' = NotLoaded
    /\ error' = ""
    /\ filters' = EmptyDict
    /\ filtered' = <<>>
    /\ stats' = NoResult
    /\ occupancy_rates' = NoResult
    /\ flow_data' = <<>>
    /\ days' = 0
    /\ UNCHANGED <<now, scoreVars, patients, data_file>>

\* patient_generator.py run as a program: 50 records, not scored, saved
GeneratorMain ==
    \E variant \in Variants :
        /\ data_file' = save_patients_to_json(
               generate_patients(InitialCount, BatchChoices(variant, InitialCount), now))
        /\ UNCHANGED <<now, scoreVars, viewVars, session_state, loaded, error>>

Next ==
    \/ RunScript
    \/ RefreshData
    \/ GenerateNewDataset
    \/ EndSession
    \/ GeneratorMain

Spec == Init /\ [][Next]_vars

\* the record carries what update_patient_risk writes
IsScored(p) ==
    /\ "risk_assessment" \in DOMAIN p
    /\ "risk_level" \in DOMAIN p
    /\ p.risk_score # None

HasSession == "patients" \in DOMAIN session_state

\* C4: whatever the sequence of startups, Refresh Data and Generate New
\* Dataset, and whatever wrote the snapshot file, every record of the
\* dashboard's population carries a risk assessment.
C4_PopulationScored ==
    HasSession =>
        \A i \in 1..Len(session_state.patients) : IsScored(session_state.patients[i])

\* the snapshot file gives the initialisation nothing to load
NothingToLoad(file) ==
    IF file.kind = "array" THEN Len(file.data) = 0 ELSE TRUE

----------------------------------------------------------------------------
(* The records of the population                                           *)

\* the records the snapshot file holds
FileRecords == IF data_file.kind = "array" THEN data_file.data ELSE <<>>

\* the record has a discharge date (the key holds a date, not None)
HasDischargeDate(p) == Len(p.discharge_date) > 0

\* C11: in every state of the population and of its snapshot, after
\* generation, batch scoring, Refresh Data and Generate New Dataset in any
\* order, a record has a discharge date if and only if its status is
\* Discharged.
C11_DischargeStatus ==
    /\ HasSession =>
           \A i \in 1..Len(session_state.patients) :
               HasDischargeDate(session_state.patients[i])
                   <=> session_state.patients[i].status = "Discharged"
    /\ \A i \in 1..Len(FileRecords) :
           HasDischargeDate(FileRecords[i]) <=> FileRecords[i].status = "Discharged"

\* a population that Refresh Data has extended, scored throughout, with an
\* admitted record without discharge date and a discharged record with one
C11_Witness ==
    /\ HasSession
    /\ Len(session_state.patients) = InitialCount + RefreshCount
    /\ \A i \in 1..Len(session_state.patients) : IsScored(session_state.patients[i])
    /\ \E i \in 1..Len(session_state.patients) :
           /\ session_state.patients[i].status = "Admitted"
           /\ ~HasDischargeDate(session_state.patients[i])
    /\ \E i \in InitialCount + 1..InitialCount + RefreshCount :
           /\ session_state.patients[i].status = "Discharged"
           /\ HasDischargeDate(session_state.patients[i])

----------------------------------------------------------------------------
(* The four views of utils.py on one collection, under SpecViews           *)

\* the collections offered to the views: the empty list, and lists of one
\* record
ViewInputs == {<<>>} \cup {<<p>> : p \in FilterInputs}

InitViews ==
    /\ now = Today
    /\ ScorerIdle
    /\ DashboardIdle
    /\ patients \in ViewInputs
    /\ days \in FlowDayChoices
    /\ filters \in FilterChoices
    /\ occupancy_rates = NoResult
    /\ flow_data = <<>>
    /\ filtered = <<>>
    /\ stats = NoResult

\* the four views called on the same collection, as a caller does that
\* shows all of them
CallViews ==
    /\ filtered' = filter_patients(patients, filters)
    /\ stats' = get_patient_statistics(patients)
    /\ occupancy_rates' = calculate_bed_occupancy(patients, "")
    /\ flow_data' = calculate_patient_flow(patients, days, now)
    /\ UNCHANGED <<now, scoreVars, dashVars, patients, days, filters>>

NextViews == CallViews

SpecViews == InitViews /\ [][NextViews]_vars

\* C12: on an empty collection every view returns: get_patient_statistics
\* the empty mapping, calculate_bed_occupancy the 10 departments of the
\* table each with occupied 0 and available equal to the capacity,
\* calculate_patient_flow days + 1 buckets with 0 admissions and 0
\* discharges, and filter_patients the empty list whatever the filters.
C12_EmptyCollection ==
    (BedsCalled /\ Len(patients) = 0) =>
        /\ DOMAIN stats = {}
        /\ DOMAIN occupancy_rates = TableDepartments
        /\ Cardinality(DOMAIN occupancy_rates) = 10
        /\ \A d \in TableDepartments :
               /\ occupancy_rates[d].occupied = 0
               /\ occupancy_rates[d].total = total_beds[d]
               /\ occupancy_rates[d].available = total_beds[d]
        /\ Len(flow_data) = days + 1
        /\ \A i \in 1..Len(flow_data) :
               flow_data[i].admissions = 0 /\ flow_data[i].discharges = 0
        /\ Len(filtered) = 0

\* the views have been called on the empty list with a window of 2 days and
\* with a department, a risk level, a status and a search term selected
C12_Witness ==
    /\ BedsCalled
    /\ patients = <<>>
    /\ days = 2
    /\ Len(flow_data) = 3
    /\ DOMAIN filters = {"department", "risk_level", "status", "search"}
    /\ filters.department = "Cardiology"
    /\ filters.risk_level = "High"
    /\ Len(filters.search) = 2
    /\ DOMAIN stats = {}

----------------------------------------------------------------------------
(* Scoring a record again, under SpecRescore                               *)

\* how many times the clock advances between calls
MaxClockTicks == 2

RescoreInputs ==
    { Record(a, h, 100, 370, o, d, adm, None, <<>>, <<>>, <<>>, <<>>) :
        a \in {40, 76}, h \in {60, 121}, o \in {89, 94},
        d \in {"Intensive Care Unit (ICU)", "Pediatrics"},
        adm \in ScoreAdmissions }

InitRescore ==
    /\ ViewsIdle
    /\ DashboardIdle
    /\ now = Today
    /\ patient \in RescoreInputs
    /\ pre_level = NoLevel
    /\ drawn = <<>>
    /\ assessment = NoAssessment

\* one call of update_patient_risk(patient): the dict is updated in place,
\* and the assessment is what calculate_risk_score returned to it
UpdatePatientRisk ==
    \E r1 \in Draws, r2 \in Draws :
        /\ pre_level' = level_of(raw_score(patient, now))
        /\ drawn' = draws_consumed(pre_level', r1, r2)
        /\ patient' = update_patient_risk(patient, now, r1, r2)
        /\ assessment' = patient'.risk_assessment
        /\ UNCHANGED <<now, viewVars, dashVars>>

\* the clock after one tick
NextTick(dt) ==
    IF dt.tod + 1 < TicksPerDay
    THEN [day |-> dt.day, tod |-> dt.tod + 1]
    ELSE [day |-> dt.day + 1, tod |-> 0]

\* time passes between two calls
Tick ==
    /\ Ticks(now) < Ticks(Today) + MaxClockTicks
    /\ now' = NextTick(now)
    /\ UNCHANGED <<scoreVars, viewVars, dashVars>>

NextRescore ==
    \/ Score
    \/ UpdatePatientRisk
    \/ Tick

SpecRescore == InitRescore /\ [][NextRescore]_vars

\* C13: when a record that has been scored is scored again at the same
\* clock reading, by calculate_risk_score or by update_patient_risk and
\* also after update_patient_risk has written onto it, the factor
\* sub-scores and risk_score are those of the earlier scoring; the level is
\* the same as well when the same random draws are consumed.
C13_Rescore ==
    [][(Scored /\ Scored' /\ assessment'.last_updated = assessment.last_updated) =>
          /\ assessment'.factors = assessment.factors
          /\ assessment'.risk_score = assessment.risk_score
          /\ drawn' = drawn => assessment'.risk_level = assessment.risk_level]_vars

\* a record that update_patient_risk wrote onto has been scored again at the
\* same clock reading: the same factors and risk_score, and another level
\* through the perturbation
C13_Witness ==
    /\ "risk_assessment" \in DOMAIN patient
    /\ Scored
    /\ assessment.last_updated = patient.risk_assessment.last_updated
    /\ assessment.factors = patient.risk_assessment.factors
    /\ assessment.risk_score = patient.risk_assessment.risk_score
    /\ assessment.risk_level # patient.risk_assessment.risk_level

----------------------------------------------------------------------------
(* batch_update_risk on a list of records, under SpecBatch                 *)

MaxBatchPatients == 2

Yesterday == MinusDays(Today, 1)

\* two records as the generator makes them, and one that was generated and
\* scored a day ago, with a perturbed level
BatchInputs ==
    { generate_patient(GenChoice[1], Today),
      generate_patient(GenChoice[2], Today),
      update_patient_risk(generate_patient(GenChoice[4], Yesterday), Yesterday, 5, 30) }

\* the random.random() values offered to one call of a batch: no
\* perturbation, one toward Critical, one toward Low
BatchDrawPairs == {<<70, 70>>, <<5, 30>>, <<5, 70>>}

\* the lists of at most `max` records of `inputs`
ListsOf(inputs, max) == UNION {[1..n -> inputs] : n \in 0..max}

InitBatch ==
    /\ now = Today
    /\ DashboardIdle
    /\ patient \in BatchInputs
    /\ pre_level = NoLevel
    /\ drawn = <<>>
    /\ assessment = NoAssessment
    /\ patients \in ListsOf(BatchInputs, MaxBatchPatients)
    /\ days = 0
    /\ filters = EmptyDict
    /\ occupancy_rates = NoResult
    /\ flow_data = <<>>
    /\ filtered = <<>>
    /\ stats = NoResult

\* one call of batch_update_risk(patients): the dicts of the list are
\* updated in place, and the returned list holds the same dicts
BatchUpdateRisk ==
    \E rs \in [1..Len(patients) -> BatchDrawPairs] :
        /\ patients' = batch_update_risk(patients, now, rs)
        /\ UNCHANGED <<now, scoreVars, dashVars, days, filters, occupancy_rates,
                       flow_data, filtered, stats>>

NextBatch ==
    \/ BatchUpdateRisk
    \/ Score

SpecBatch == InitBatch /\ [][NextBatch]_vars

\* the keys update_patient_risk writes
DerivedKeys == {"risk_assessment", "risk_level", "risk_score"}

\* C14: batch_update_risk keeps the number and the order of the records,
\* changes on each record no key other than risk_assessment, risk_level and
\* risk_score, and leaves the top-level risk_level and risk_score equal to
\* the values inside risk_assessment; a call of calculate_risk_score leaves
\* its argument as it was.
C14_BatchFrame ==
    [][/\ patients' # patients =>
             /\ Len(patients') = Len(patients)
             /\ \A i \in 1..Len(patients) :
                    /\ DOMAIN patients'[i] = DOMAIN patients[i] \cup DerivedKeys
                    /\ \A k \in DOMAIN patients[i] \ DerivedKeys :
                           patients'[i][k] = patients[i][k]
                    /\ patients'[i].risk_level = patients'[i].risk_assessment.risk_level
                    /\ patients'[i].risk_score
                           = Some(patients'[i].risk_assessment.risk_score)
       /\ (Scored' /\ ~Scored) => patient' = patient]_vars

\* a batch of two different records, one of them scored a day ago, has been
\* scored now; the first record's level is a perturbed one
C14_Witness ==
    /\ Len(patients) = 2
    /\ patients[1].medical_record_number # patients[2].medical_record_number
    /\ patients[1].age = GenChoice[4].age
    /\ \A i \in 1..2 :
           /\ "risk_assessment" \in DOMAIN patients[i]
           /\ patients[i].risk_assessment.last_updated = isoformat(now)
           /\ patients[i].risk_level = patients[i].risk_assessment.risk_level
    /\ patients[1].risk_level # level_of(patients[1].risk_assessment.risk_score)

----------------------------------------------------------------------------
(* The population of a session, under Spec                                 *)

\* C15: in a session whose startup has completed the population is never
\* empty, get_patient_statistics never returns the empty mapping to the
\* dashboard, and the lookup of 'total_patients' never fails: whenever the
\* statistics are returned they hold total_patients, the size of the
\* population.  Refresh Data keeps the records of the population in place
\* and appends 5, and Generate New Dataset leaves a population of 50.
C15_NeverEmpty ==
    /\ [](HasSession =>
             /\ Len(session_state.patients) > 0
             /\ DOMAIN stats # {}
             /\ error # "KeyError"
             /\ (StatsCalled /\ ~DidRaise(stats)) =>
                    /\ "total_patients" \in DOMAIN stats
                    /\ stats.total_patients = Len(session_state.patients))
    /\ [][/\ RefreshData =>
                 /\ Len(session_state'.patients)
                        = Len(session_state.patients) + RefreshCount
                 /\ SubSeq(session_state'.patients, 1, Len(session_state.patients))
                        = session_state.patients
          /\ GenerateNewDataset =>
                 Len(session_state'.patients) = InitialCount]_vars

\* after a Refresh Data the statistics of the run count the 55 records
C15_Witness ==
    /\ HasSession
    /\ Len(session_state.patients) = InitialCount + RefreshCount
    /\ error = ""
    /\ StatsCalled
    /\ ~DidRaise(stats)
    /\ stats.total_patients = InitialCount + RefreshCount

====
